---- MODULE Spec2Model ----
(***************************************************************************)
(* Model of jina/logging/profile.py: the TimeDict keyed accumulator and    *)
(* the ProgressBar (a TimeContext) with its render throttling.             *)
(*                                                                         *)
(* time.perf_counter() is the variable now: a monotonic clock that Tick    *)
(* advances between calls and that a call reads.  Clock values are         *)
(* naturals (ticks).  A defaultdict(float) is a sequence of <<key, value>> *)
(* pairs in insertion order, as a Python dict keeps them.  Progress is     *)
(* counted in exact steps of 1/(2 * Resolution).  A TimeDict is driven by  *)
(* any interleaving of its four methods; a ProgressBar is used as one with *)
(* block.  The two objects share nothing but the clock, so each has its    *)
(* own specification.                                                      *)
(***************************************************************************)
EXTENDS Integers, Sequences, FiniteSets

\* ---------------------------------------------------------------- bounds
MaxClock == 2

MaxPush == 2

\* ProgressBar.update calls made by the user
MaxUpdates == 4

\* progress is counted in steps of 1/(2 * Resolution) of a unit
Resolution == 2

\* the peak memory of the process, in units of used_memory(unit=1)
MaxRss == 1

Keys == {"a", "b"}

\* task names of a TimeContext
TaskNames == {"loop", "job"}

\* results of a profiled function
Results == {"r1", "r2"}

\* 1.0, the default progress of ProgressBar.update
One == 2 * Resolution

\* 0.5, the render threshold of ProgressBar.update
Half == Resolution

\* ProgressBar._bars_on_row
BarsOnRow == 40

\* a full row of bars, in steps
Row == BarsOnRow * One

\* the progress arguments tried: -1.0, 0, the smallest step, 0.5, 1.0 and
\* 39.0, which fills the row after the 1.0 of enter
ProgressArgs == {-One, 0, 1, Half, One, Row - One}

VARIABLES
    now,                \* last value time.perf_counter() can return
    accum_time,         \* TimeDict.accum_time
    first_start_time,   \* TimeDict.first_start_time
    start_time,         \* TimeDict.start_time
    end_time,           \* TimeDict.end_time
    key_stack,          \* TimeDict._key_stack
    pending_reset,      \* TimeDict._pending_reset
    last_call,          \* the TimeDict method called last
    raised,             \* the exception that call raised, or "none"
    scopes,             \* history: per stack slot, the clock at its own enter, -1 before it
    ideal,              \* history: per key, the sum of (exit clock - own enter clock) of its scopes
    pushes,             \* history: per key, how many times it was pushed
    exits,              \* history: how many exits popped a key
    first_exits,        \* history: the keys exited since the last performed reset, by first exit
    max_depth,          \* history: the longest key stack so far
    disciplined,        \* history: used only as `with td(key): ...`, no reset, no error
    pb_phase,           \* ProgressBar: "new", "entered" (inside the with block) or "exited"
    start,              \* TimeContext.start
    duration,           \* TimeContext.duration
    completed_progress,      \* ProgressBar._completed_progress
    last_rendered_progress,  \* ProgressBar._last_rendered_progress
    num_update_called,       \* ProgressBar._num_update_called
    written,            \* what the last ProgressBar call wrote to sys.stdout
    num_bars,           \* num_bars of the last render of ProgressBar.update, in steps
    real_render,        \* history: an update of the user's has rendered
    n_updates,          \* history: how many updates the user has made
    sum_progress,       \* history: the sum of their progress arguments
    completed_at_render, \* history: completed_progress at the last render
    tc_phase,           \* TimeContext: "none", "new", "running" (inside the with block) or "exited"
    task_name,          \* TimeContext.task_name
    tc_logger,          \* TimeContext._logger is set
    tc_start,           \* TimeContext.start
    tc_duration,        \* TimeContext.duration
    tc_out,             \* the messages the TimeContext has emitted
    tc_region,          \* how the with block ended: "none" or "error"
    tc_propagated,      \* what the with statement raises after __exit__: "none" or "error"
    maxrss,             \* resource.getrusage(RUSAGE_SELF).ru_maxrss
    prof_pc,            \* profiling wrapper: "idle" or "in_func"
    prof_start_t,       \* arg_wrapper: start_t
    prof_start_mem,     \* arg_wrapper: start_mem
    prof_log,           \* the lines the wrapper's call has logged
    prof_result,        \* what the wrapper's call returned, or "none"
    prof_error          \* what the wrapper's call raised, or "none"

tdvars == <<accum_time, first_start_time, start_time, end_time, key_stack, pending_reset>>

hist == <<scopes, ideal, pushes, exits, first_exits, max_depth, disciplined>>

pbvars == <<pb_phase, start, duration, completed_progress, last_rendered_progress,
            num_update_called, written, num_bars, real_render, n_updates,
            sum_progress, completed_at_render>>

tcvars == <<tc_phase, task_name, tc_logger, tc_start, tc_duration, tc_out,
            tc_region, tc_propagated>>

profvars == <<maxrss, prof_pc, prof_start_t, prof_start_mem, prof_log,
              prof_result, prof_error>>

scvars == <<tcvars, profvars>>

vars == <<now, tdvars, last_call, raised, hist, pbvars, scvars>>

\* ------------------------------------------------- defaultdict(float)
EmptyDict == <<>>

DictKeys(d) == {d[i][1] : i \in DOMAIN d}

Has(d, k) == k \in DictKeys(d)

Get(d, k) == d[CHOOSE i \in DOMAIN d : d[i][1] = k][2]

\* d[k] = v
Put(d, k, v) ==
    IF Has(d, k)
    THEN [i \in DOMAIN d |-> IF d[i][1] = k THEN <<k, v>> ELSE d[i]]
    ELSE Append(d, <<k, v>>)

\* reading d[k] of a defaultdict(float) inserts 0.0 for a missing key
Touch(d, k) == IF Has(d, k) THEN d ELSE Append(d, <<k, 0>>)

\* ------------------------------------------------------------ TimeDict
TimeDictState(acc, fst, st, en, stack, pend) ==
    [accum_time |-> acc, first_start_time |-> fst, start_time |-> st,
     end_time |-> en, key_stack |-> stack, pending_reset |-> pend]

Current ==
    TimeDictState(accum_time, first_start_time, start_time, end_time,
                  key_stack, pending_reset)

\* a reset that does not look at the key stack
ResetStateEager(s) ==
    TimeDictState(EmptyDict, EmptyDict, EmptyDict, EmptyDict, <<>>, FALSE)

\* a reset that clears everything but the pending flag
ResetStateKeepsFlag(s) ==
    IF s.key_stack # <<>>
    THEN [s EXCEPT !.pending_reset = TRUE]
    ELSE TimeDictState(EmptyDict, EmptyDict, EmptyDict, EmptyDict, <<>>, s.pending_reset)

\* TimeDict.reset on the fields s
ResetState(s) ==
    IF s.key_stack # <<>>
    THEN [s EXCEPT !.pending_reset = TRUE]
    ELSE TimeDictState(EmptyDict, EmptyDict, EmptyDict, EmptyDict, <<>>, FALSE)

\* an enter that stores the first enter time on every enter
EnterStateAlwaysFirst(s, t1, t2) ==
    LET key == s.key_stack[Len(s.key_stack)]
    IN  [s EXCEPT !.first_start_time = Put(s.first_start_time, key, t1),
                  !.start_time = Put(s.start_time, key, t2)]

\* an enter that already reads accum_time[key], which inserts the key
EnterStateTouchesAccum(s, t1, t2) ==
    LET key == s.key_stack[Len(s.key_stack)]
        fst == IF ~Has(s.first_start_time, key)
               THEN Put(s.first_start_time, key, t1)
               ELSE s.first_start_time
    IN  [s EXCEPT !.first_start_time = fst,
                  !.start_time = Put(s.start_time, key, t2),
                  !.accum_time = Touch(s.accum_time, key)]

\* TimeDict.__enter__ on the fields s, its two clock reads returning t1 <= t2
EnterState(s, t1, t2) ==
    LET key == s.key_stack[Len(s.key_stack)]
        fst == IF ~Has(s.first_start_time, key)
               THEN Put(s.first_start_time, key, t1)
               ELSE s.first_start_time
    IN  [s EXCEPT !.first_start_time = fst,
                  !.start_time = Put(s.start_time, key, t2)]

\* an exit that never performs the pending reset
ExitStateDropsReset(s, t) ==
    LET key == s.key_stack[Len(s.key_stack)]
        en == Put(s.end_time, key, t)
        acc0 == Touch(s.accum_time, key)
        st == Touch(s.start_time, key)
    IN  [s EXCEPT !.key_stack = SubSeq(s.key_stack, 1, Len(s.key_stack) - 1),
                  !.end_time = en, !.start_time = st,
                  !.accum_time = Put(acc0, key, Get(acc0, key) + (Get(en, key) - Get(st, key)))]

\* an exit that measures from the key's first enter, not from its last one
ExitStateFromFirstStart(s, t) ==
    LET key == s.key_stack[Len(s.key_stack)]
        en == Put(s.end_time, key, t)
        acc0 == Touch(s.accum_time, key)
        fst == Touch(s.first_start_time, key)
        popped == [s EXCEPT !.key_stack = SubSeq(s.key_stack, 1, Len(s.key_stack) - 1),
                            !.end_time = en, !.first_start_time = fst,
                            !.accum_time = Put(acc0, key, Get(acc0, key) + (Get(en, key) - Get(fst, key)))]
    IN  IF s.pending_reset THEN ResetState(popped) ELSE popped

\* an exit that subtracts the wrong way round
ExitStateSwapped(s, t) ==
    LET key == s.key_stack[Len(s.key_stack)]
        en == Put(s.end_time, key, t)
        acc0 == Touch(s.accum_time, key)
        st == Touch(s.start_time, key)
        popped == [s EXCEPT !.key_stack = SubSeq(s.key_stack, 1, Len(s.key_stack) - 1),
                            !.end_time = en, !.start_time = st,
                            !.accum_time = Put(acc0, key, Get(acc0, key) + (Get(st, key) - Get(en, key)))]
    IN  IF s.pending_reset THEN ResetState(popped) ELSE popped

\* an exit that reads the top key with [-1] and leaves it on the stack
ExitStatePeek(s, t) ==
    LET key == s.key_stack[Len(s.key_stack)]
        en == Put(s.end_time, key, t)
        acc0 == Touch(s.accum_time, key)
        st == Touch(s.start_time, key)
        kept == [s EXCEPT !.end_time = en, !.start_time = st,
                          !.accum_time = Put(acc0, key, Get(acc0, key) + (Get(en, key) - Get(st, key)))]
    IN  IF s.pending_reset THEN ResetState(kept) ELSE kept

\* TimeDict.__exit__ on the fields s (stack not empty), its clock read returning t
ExitState(s, t) ==
    LET key == s.key_stack[Len(s.key_stack)]
        stack == SubSeq(s.key_stack, 1, Len(s.key_stack) - 1)
        en == Put(s.end_time, key, t)
        acc0 == Touch(s.accum_time, key)
        st == Touch(s.start_time, key)
        acc == Put(acc0, key, Get(acc0, key) + (Get(en, key) - Get(st, key)))
        popped == [s EXCEPT !.key_stack = stack, !.end_time = en,
                            !.start_time = st, !.accum_time = acc]
    IN  IF s.pending_reset THEN ResetState(popped) ELSE popped

\* a push that already starts the key's timer
PushStateStartsTiming(s, key) ==
    [s EXCEPT !.key_stack = Append(s.key_stack, key),
              !.start_time = Touch(s.start_time, key)]

\* TimeDict.__call__ on the fields s
PushState(s, key) == [s EXCEPT !.key_stack = Append(s.key_stack, key)]

\* TimeDict.__str__: the keys of accum_time in the order the line lists them
RenderKeys(s) == [i \in DOMAIN s.accum_time |-> s.accum_time[i][1]]

Store(s) ==
    /\ accum_time' = s.accum_time
    /\ first_start_time' = s.first_start_time
    /\ start_time' = s.start_time
    /\ end_time' = s.end_time
    /\ key_stack' = s.key_stack
    /\ pending_reset' = s.pending_reset

TotalPushes == pushes["a"] + pushes["b"]

Init ==
    /\ now = 0
    /\ accum_time = EmptyDict
    /\ first_start_time = EmptyDict
    /\ start_time = EmptyDict
    /\ end_time = EmptyDict
    /\ key_stack = <<>>
    /\ pending_reset = FALSE
    /\ last_call = "init"
    /\ raised = "none"
    /\ scopes = <<>>
    /\ ideal = <<>>
    /\ pushes = [k \in Keys |-> 0]
    /\ exits = 0
    /\ first_exits = <<>>
    /\ max_depth = 0
    /\ disciplined = TRUE
    /\ pb_phase = "new"
    /\ start = 0
    /\ duration = 0
    /\ completed_progress = 0
    /\ last_rendered_progress = 0
    /\ num_update_called = 0
    /\ written = <<>>
    /\ num_bars = 0
    /\ real_render = FALSE
    /\ n_updates = 0
    /\ sum_progress = 0
    /\ completed_at_render = 0
    /\ tc_phase = "none"
    /\ task_name = "none"
    /\ tc_logger = FALSE
    /\ tc_start = 0
    /\ tc_duration = 0
    /\ tc_out = <<>>
    /\ tc_region = "none"
    /\ tc_propagated = "none"
    /\ maxrss = 0
    /\ prof_pc = "idle"
    /\ prof_start_t = 0
    /\ prof_start_mem = 0
    /\ prof_log = <<>>
    /\ prof_result = "none"
    /\ prof_error = "none"

\* time passes between two calls
Tick ==
    /\ now < MaxClock
    /\ now' = now + 1
    /\ UNCHANGED <<tdvars, last_call, raised, hist, pbvars, scvars>>

\* td(key)
Push(key) ==
    /\ TotalPushes < MaxPush
    /\ UNCHANGED <<pbvars, scvars>>
    /\ Store(PushState(Current, key))
    /\ last_call' = "push"
    /\ raised' = "none"
    /\ scopes' = Append(scopes, -1)
    /\ pushes' = [pushes EXCEPT ![key] = @ + 1]
    /\ max_depth' = IF Len(key_stack) + 1 > max_depth THEN Len(key_stack) + 1 ELSE max_depth
    /\ disciplined' = (disciplined /\ \A i \in DOMAIN scopes : scopes[i] >= 0)
    /\ UNCHANGED <<now, ideal, exits, first_exits>>

\* td.__enter__(); self._key_stack[-1] raises IndexError on an empty stack
Enter ==
    /\ UNCHANGED <<pbvars, scvars>>
    /\ last_call' = "enter"
    /\ IF key_stack = <<>>
       THEN /\ raised' = "IndexError"
            /\ disciplined' = FALSE
            /\ UNCHANGED <<now, tdvars, scopes, ideal, pushes, exits, first_exits, max_depth>>
       ELSE \E d \in 0..1 :
            /\ now + d <= MaxClock
            /\ Store(EnterState(Current, now, now + d))
            /\ now' = now + d
            /\ raised' = "none"
            /\ scopes' = [scopes EXCEPT ![Len(scopes)] = now + d]
            /\ disciplined' = (disciplined /\ scopes[Len(scopes)] = -1)
            /\ UNCHANGED <<ideal, pushes, exits, first_exits, max_depth>>

\* an exit that returns quietly when there is nothing to pop
ExitGuarded ==
    /\ UNCHANGED <<pbvars, scvars>>
    /\ last_call' = "exit"
    /\ raised' = "none"
    /\ disciplined' = FALSE
    /\ IF key_stack = <<>>
       THEN UNCHANGED <<now, tdvars, scopes, ideal, pushes, exits, first_exits, max_depth>>
       ELSE /\ Store(ExitState(Current, now))
            /\ scopes' = SubSeq(scopes, 1, Len(scopes) - 1)
            /\ exits' = exits + 1
            /\ UNCHANGED <<now, ideal, pushes, first_exits, max_depth>>

\* td.__exit__(...); self._key_stack.pop() raises IndexError on an empty stack
Exit ==
    /\ UNCHANGED <<pbvars, scvars>>
    /\ last_call' = "exit"
    /\ IF key_stack = <<>>
       THEN /\ raised' = "IndexError"
            /\ disciplined' = FALSE
            /\ UNCHANGED <<now, tdvars, scopes, ideal, pushes, exits, first_exits, max_depth>>
       ELSE LET key == key_stack[Len(key_stack)]
                own == scopes[Len(scopes)]
                after == ExitState(Current, now)
                sum == IF key \in DOMAIN ideal THEN ideal[key] ELSE 0
                performed == after.key_stack = <<>> /\ pending_reset
            IN  /\ Store(after)
                /\ raised' = "none"
                /\ scopes' = SubSeq(scopes, 1, Len(scopes) - 1)
                /\ ideal' = IF performed THEN <<>>
                            ELSE IF own < 0 THEN ideal
                            ELSE [k \in DOMAIN ideal \cup {key} |->
                                    IF k = key THEN sum + (now - own) ELSE ideal[k]]
                /\ disciplined' = (disciplined /\ own >= 0)
                /\ exits' = exits + 1
                /\ first_exits' = IF performed THEN <<>>
                                  ELSE IF \E i \in DOMAIN first_exits : first_exits[i] = key
                                  THEN first_exits
                                  ELSE Append(first_exits, key)
                /\ UNCHANGED <<now, pushes, max_depth>>

\* td.reset()
Reset ==
    /\ UNCHANGED <<pbvars, scvars>>
    /\ last_call' = "reset"
    /\ raised' = "none"
    /\ Store(ResetState(Current))
    /\ ideal' = IF key_stack = <<>> THEN <<>> ELSE ideal
    /\ first_exits' = IF key_stack = <<>> THEN <<>> ELSE first_exits
    /\ disciplined' = FALSE
    /\ UNCHANGED <<now, scopes, pushes, exits, max_depth>>

NextTimeDict ==
    \/ Tick
    \/ \E key \in Keys : Push(key)
    \/ Enter
    \/ Exit
    \/ Reset

SpecTimeDict == Init /\ [][NextTimeDict]_vars

\* --------------------------------------------------------- ProgressBar
Abs(x) == IF x < 0 THEN -x ELSE x

ProgressBarState(done, last, calls, out, bars) ==
    [completed_progress |-> done, last_rendered_progress |-> last,
     num_update_called |-> calls, written |-> out, num_bars |-> bars]

\* num_bars without the floor of one bar
NumBarsNoFloor(done) ==
    IF done % Row = 0 /\ done # 0 THEN Row ELSE done % Row

\* num_bars of ProgressBar.update for completed_progress = done, in steps
NumBars(done) ==
    LET rest == done % Row
    IN  IF rest = 0 /\ done # 0
        THEN Row
        ELSE IF rest > One THEN rest ELSE One

\* num_fullbars = math.floor(num_bars)
NumFullBars(bars) == bars \div One

\* the bar line update writes; its colour is yellow when all_completed
Bar(all_completed) == <<"bar", IF all_completed THEN "yellow" ELSE "green">>

\* an update that also skips the render when the change is exactly 0.5
UpdateStateStrict(s, progress, all_completed, first_enter) ==
    LET calls == s.num_update_called + (IF first_enter THEN 0 ELSE 1)
        done == s.completed_progress + progress
    IN  IF Abs(done - s.last_rendered_progress) <= Half /\ ~all_completed
        THEN [s EXCEPT !.num_update_called = calls, !.completed_progress = done]
        ELSE ProgressBarState(done, done, calls,
                              s.written \o <<"clear_line", Bar(all_completed)>>,
                              NumBars(done))

\* an update that counts only when it renders
UpdateStateCountsRenders(s, progress, all_completed, first_enter) ==
    LET calls == s.num_update_called + (IF first_enter THEN 0 ELSE 1)
        done == s.completed_progress + progress
    IN  IF Abs(done - s.last_rendered_progress) < Half /\ ~all_completed
        THEN s
        ELSE ProgressBarState(done, done, calls,
                              s.written \o <<"clear_line", Bar(all_completed)>>,
                              NumBars(done))

\* an update that renders without recording what it rendered
UpdateStateStaleLast(s, progress, all_completed, first_enter) ==
    LET calls == s.num_update_called + (IF first_enter THEN 0 ELSE 1)
        done == s.completed_progress + progress
    IN  IF Abs(done - s.last_rendered_progress) < Half /\ ~all_completed
        THEN [s EXCEPT !.num_update_called = calls, !.completed_progress = done]
        ELSE ProgressBarState(done, s.last_rendered_progress, calls,
                              s.written \o <<"clear_line", Bar(all_completed)>>,
                              NumBars(done))

\* ProgressBar.update on the fields s; description and message only change
\* the text of the line, and the time and speed labels are part of it
UpdateState(s, progress, all_completed, first_enter) ==
    LET calls == s.num_update_called + (IF first_enter THEN 0 ELSE 1)
        done == s.completed_progress + progress
    IN  IF Abs(done - s.last_rendered_progress) < Half /\ ~all_completed
        THEN [s EXCEPT !.num_update_called = calls, !.completed_progress = done]
        ELSE ProgressBarState(done, done, calls,
                              s.written \o <<"clear_line", Bar(all_completed)>>,
                              NumBars(done))

\* an exit message that takes the render of enter for a real one
ExitMsgStateFromOne(s) ==
    IF s.last_rendered_progress >= One
    THEN LET u == UpdateState(s, 0, TRUE, FALSE)
         IN  [u EXCEPT !.written = u.written \o <<"final_msg", "newline">>]
    ELSE [s EXCEPT !.written = s.written \o <<"clear_line">>]

\* ProgressBar._exit_msg on the fields s
ExitMsgState(s) ==
    IF s.last_rendered_progress > One
    THEN LET u == UpdateState(s, 0, TRUE, FALSE)
         IN  [u EXCEPT !.written = u.written \o <<"final_msg", "newline">>]
    ELSE [s EXCEPT !.written = s.written \o <<"clear_line">>]

\* the fields at the start of a call, nothing written yet
CurrentBar ==
    ProgressBarState(completed_progress, last_rendered_progress, num_update_called,
                     <<>>, num_bars)

\* the call has written a bar line
Rendered(out) == \E i \in DOMAIN out : out[i] \in {Bar(TRUE), Bar(FALSE)}

StoreBar(s) ==
    /\ completed_progress' = s.completed_progress
    /\ last_rendered_progress' = s.last_rendered_progress
    /\ num_update_called' = s.num_update_called
    /\ written' = s.written
    /\ num_bars' = s.num_bars
    /\ completed_at_render' =
          IF Rendered(s.written) THEN s.completed_progress ELSE completed_at_render

\* with ProgressBar(...) as p: TimeContext.__enter__ and ProgressBar._enter_msg
BarEnter ==
    /\ pb_phase = "new"
    /\ pb_phase' = "entered"
    /\ start' = now
    /\ StoreBar(UpdateState(CurrentBar, One, FALSE, TRUE))
    /\ UNCHANGED <<now, tdvars, last_call, raised, hist, scvars, duration, real_render,
                   n_updates, sum_progress>>

\* p.update(progress, all_completed=...) inside the with block
BarUpdate(progress, all_completed) ==
    /\ pb_phase = "entered"
    /\ num_update_called < MaxUpdates
    /\ LET after == UpdateState(CurrentBar, progress, all_completed, FALSE)
       IN  /\ StoreBar(after)
           /\ real_render' = (real_render \/ after.written # <<>>)
    /\ n_updates' = n_updates + 1
    /\ sum_progress' = sum_progress + progress
    /\ UNCHANGED <<now, tdvars, last_call, raised, hist, scvars, pb_phase, start, duration>>

\* the end of the with block: TimeContext.__exit__ and ProgressBar._exit_msg
BarExit ==
    /\ pb_phase = "entered"
    /\ pb_phase' = "exited"
    /\ duration' = now - start
    /\ StoreBar(ExitMsgState(CurrentBar))
    /\ UNCHANGED <<now, tdvars, last_call, raised, hist, scvars, start, real_render,
                   n_updates, sum_progress>>

NextProgressBar ==
    \/ Tick
    \/ BarEnter
    \/ \E progress \in ProgressArgs, all_completed \in BOOLEAN :
          BarUpdate(progress, all_completed)
    \/ BarExit

SpecProgressBar == Init /\ [][NextProgressBar]_vars

\* --------------------------------------------------------- TimeContext
\* TimeContext._enter_msg: the sink and the text
EnterMsg(name, logger) ==
    <<IF logger THEN "logger.info" ELSE "print", "in_progress", name>>

\* TimeContext._exit_msg: the sink and the text, which carries the duration
ExitMsg(name, logger, took) ==
    <<IF logger THEN "logger.info" ELSE "print", "takes", name, took>>

\* TimeContext.now(): the time passed since start, read at clock t
Elapsed(t) == t - tc_start

\* an __exit__ that returns True
ExitReturnsTrue == TRUE

\* what TimeContext.__exit__ returns, as the with statement reads it: it has
\* no return statement, so None, which is false
ExitReturn == FALSE

\* TimeContext(task_name, logger)
TimerNew(name, logger) ==
    /\ tc_phase = "none"
    /\ tc_phase' = "new"
    /\ task_name' = name
    /\ tc_logger' = logger
    /\ tc_duration' = 0
    /\ UNCHANGED <<now, tdvars, last_call, raised, hist, pbvars, profvars,
                   tc_start, tc_out, tc_region, tc_propagated>>

\* with timer: TimeContext.__enter__
TimerEnter ==
    /\ tc_phase = "new"
    /\ tc_phase' = "running"
    /\ tc_start' = now
    /\ tc_out' = Append(tc_out, EnterMsg(task_name, tc_logger))
    /\ UNCHANGED <<now, tdvars, last_call, raised, hist, pbvars, profvars,
                   task_name, tc_logger, tc_duration, tc_region, tc_propagated>>

\* the with block ends, normally (typ = "none") or by raising (typ = "error"),
\* and the with statement calls TimeContext.__exit__(typ, value, traceback);
\* it raises the block's error again unless __exit__ returns true
TimerExit(typ) ==
    /\ tc_phase = "running"
    /\ tc_phase' = "exited"
    /\ tc_region' = typ
    /\ tc_duration' = Elapsed(now)
    /\ tc_out' = Append(tc_out, ExitMsg(task_name, tc_logger, Elapsed(now)))
    /\ tc_propagated' = IF typ # "none" /\ ~ExitReturn THEN typ ELSE "none"
    /\ UNCHANGED <<now, tdvars, last_call, raised, hist, pbvars, profvars,
                   task_name, tc_logger, tc_start>>

\* ----------------------------------------------------------- profiling
\* the line arg_wrapper logs: elapsed time, start and end memory
LogLine(elapsed, start_mem, end_mem) == <<"info", elapsed, start_mem, end_mem>>

\* a wrapper that logs in a finally clause
AfterRaiseLogged(log, elapsed, start_mem, end_mem) ==
    Append(log, LogLine(elapsed, start_mem, end_mem))

\* the log after func raised: line 55 is not guarded, so nothing is added
AfterRaise(log, elapsed, start_mem, end_mem) == log

\* a call of the wrapped function begins: start_t, start_mem, then func(...)
WrapperCall ==
    /\ prof_pc = "idle"
    /\ prof_pc' = "in_func"
    /\ prof_start_t' = now
    /\ prof_start_mem' = maxrss
    /\ prof_log' = <<>>
    /\ prof_result' = "none"
    /\ prof_error' = "none"
    /\ UNCHANGED <<now, tdvars, last_call, raised, hist, pbvars, tcvars, maxrss>>

\* func returns r, having raised the peak memory by grow: the wrapper logs
\* one line and returns r
FuncReturns(r, grow) ==
    /\ prof_pc = "in_func"
    /\ maxrss + grow <= MaxRss
    /\ prof_pc' = "idle"
    /\ maxrss' = maxrss + grow
    /\ prof_log' = Append(prof_log, LogLine(now - prof_start_t, prof_start_mem, maxrss + grow))
    /\ prof_result' = r
    /\ prof_error' = "none"
    /\ UNCHANGED <<now, tdvars, last_call, raised, hist, pbvars, tcvars,
                   prof_start_t, prof_start_mem>>

\* func raises: the error leaves the wrapper at line 55
FuncRaises(grow) ==
    /\ prof_pc = "in_func"
    /\ maxrss + grow <= MaxRss
    /\ prof_pc' = "idle"
    /\ maxrss' = maxrss + grow
    /\ prof_log' = AfterRaise(prof_log, now - prof_start_t, prof_start_mem, maxrss + grow)
    /\ prof_result' = "none"
    /\ prof_error' = "error"
    /\ UNCHANGED <<now, tdvars, last_call, raised, hist, pbvars, tcvars,
                   prof_start_t, prof_start_mem>>

NextScoped ==
    \/ Tick
    \/ \E name \in TaskNames, logger \in BOOLEAN : TimerNew(name, logger)
    \/ TimerEnter
    \/ \E typ \in {"none", "error"} : TimerExit(typ)
    \/ WrapperCall
    \/ \E r \in Results, grow \in 0..1 : FuncReturns(r, grow)
    \/ \E grow \in 0..1 : FuncRaises(grow)

SpecScoped == Init /\ [][NextScoped]_vars

Next == NextTimeDict \/ NextProgressBar \/ NextScoped

Spec == Init /\ [][Next]_vars

\* every pushed key is eventually exited: the bottom key of the stack is the
\* last one out, so the stack is empty again and again
FairTimeDict == SpecTimeDict /\ []<>(key_stack = <<>>)

\* ------------------------------------------------------------- claims
NoDuplicateKeys(d) == \A i, j \in DOMAIN d : d[i][1] = d[j][1] => i = j

AllEmpty ==
    /\ accum_time' = EmptyDict
    /\ first_start_time' = EmptyDict
    /\ start_time' = EmptyDict
    /\ end_time' = EmptyDict

\* the step performs a reset: reset() on an empty stack, or the exit that
\* empties the stack while a reset is pending
ResetTakesEffect ==
    \/ Reset /\ key_stack = <<>>
    \/ Exit /\ Len(key_stack) = 1 /\ pending_reset

OpenScopes == Cardinality({i \in DOMAIN scopes : scopes[i] >= 0})

\* C1: reset() with a non-empty key stack changes nothing but pending_reset,
\* which becomes true; reset() with an empty key stack leaves the four
\* mappings and the stack empty and pending_reset false.
C1_ResetFrame ==
    [][Reset =>
        IF key_stack # <<>>
        THEN /\ UNCHANGED <<accum_time, first_start_time, start_time, end_time, key_stack>>
             /\ pending_reset'
        ELSE /\ AllEmpty
             /\ key_stack' = <<>>
             /\ ~pending_reset']_vars

C1_Witness ==
    /\ last_call = "reset"
    /\ pending_reset
    /\ key_stack # <<>>
    /\ accum_time # EmptyDict
    /\ start_time # EmptyDict

\* C2: while a reset is pending, a step that leaves the key stack non-empty
\* keeps it pending and keeps every key of the mappings; the exit that empties
\* the stack leaves the four mappings empty and pending_reset false; and, every
\* pushed key being eventually exited, a pending reset is eventually performed.
C2_DeferredReset ==
    /\ [][(pending_reset /\ key_stack' # <<>>) =>
            /\ pending_reset'
            /\ DictKeys(accum_time) \subseteq DictKeys(accum_time')
            /\ DictKeys(first_start_time) \subseteq DictKeys(first_start_time')
            /\ DictKeys(start_time) \subseteq DictKeys(start_time')
            /\ DictKeys(end_time) \subseteq DictKeys(end_time')]_vars
    /\ [][(pending_reset /\ Exit /\ key_stack' = <<>>) =>
            (AllEmpty /\ ~pending_reset')]_vars
    /\ (pending_reset ~> (~pending_reset /\ key_stack = <<>> /\ accum_time = EmptyDict))

C2_Witness ==
    /\ last_call = "exit"
    /\ raised = "none"
    /\ exits = 2
    /\ max_depth = 2
    /\ ~pending_reset
    /\ accum_time = EmptyDict
    /\ key_stack = <<>>

\* C3: after push k, enter, push k, enter, exit, exit and nothing else,
\* accum_time[k] is the sum of the two scopes' durations, each measured from
\* the scope's own enter.
C3_NestedSameKeySum ==
    \A k \in Keys :
        (/\ disciplined
         /\ key_stack = <<>>
         /\ max_depth = 2
         /\ pushes[k] = 2
         /\ exits = 2)
        => (Has(accum_time, k) /\ Get(accum_time, k) = ideal[k])

\* C4: after non-nested push/enter/exit triples on pairwise distinct keys and
\* nothing else, accum_time holds exactly the exited keys, each once, each
\* with the clock at its exit minus the clock at its enter.
C4_DistinctKeysElapsed ==
    (/\ disciplined
     /\ max_depth <= 1
     /\ \A k \in Keys : pushes[k] <= 1)
    => /\ NoDuplicateKeys(accum_time)
       /\ DictKeys(accum_time) = DOMAIN ideal
       /\ DOMAIN ideal = {k \in Keys : pushes[k] = 1 /\ (key_stack = <<>> \/ key_stack[1] # k)}
       /\ \A k \in DOMAIN ideal : Get(accum_time, k) = ideal[k]

C4_Witness ==
    /\ disciplined
    /\ max_depth = 1
    /\ \A k \in Keys : pushes[k] = 1
    /\ key_stack = <<>>
    /\ Get(accum_time, "a") = 1
    /\ Get(accum_time, "b") = 0
    /\ Get(first_start_time, "a") < Get(start_time, "a")

\* C5: in a step that performs no reset, no key leaves accum_time and no
\* accum_time value decreases, and only an exit changes accum_time.
C5_AccumMonotonic ==
    [][~ResetTakesEffect =>
        /\ \A k \in DictKeys(accum_time) :
              Has(accum_time', k) /\ Get(accum_time', k) >= Get(accum_time, k)
        /\ (~Exit => accum_time' = accum_time)]_vars

C5_Witness ==
    /\ pushes["a"] = 2
    /\ exits = 2
    /\ max_depth = 1
    /\ Has(accum_time, "a")
    /\ Get(accum_time, "a") > Get(end_time, "a") - Get(start_time, "a")
    /\ Get(end_time, "a") > Get(start_time, "a")

\* C6 as claimed: the key stack is as long as the number of scopes entered
\* and not yet exited.
C6_StackIsOpenScopes == Len(key_stack) = OpenScopes

\* C6: the key stack is as long as the number of keys pushed and not yet
\* popped by an exit; the scopes entered and not yet exited are among them,
\* and are all of them once every key on the stack has been entered.
C6_StackIsPushedNotExited ==
    /\ Len(key_stack) = TotalPushes - exits
    /\ OpenScopes <= Len(key_stack)
    /\ (\A i \in DOMAIN scopes : scopes[i] >= 0) => Len(key_stack) = OpenScopes

C6_Witness ==
    /\ Len(key_stack) = 2
    /\ OpenScopes = 1
    /\ last_call = "push"
    /\ pending_reset

\* C7: exit on an empty key stack raises and leaves the four mappings, the
\* key stack and pending_reset as they were.
C7_ExitOnEmptyRaises ==
    [][(Exit /\ key_stack = <<>>) =>
        (raised' # "none" /\ UNCHANGED tdvars)]_vars

C7_Witness ==
    /\ last_call = "exit"
    /\ raised = "IndexError"
    /\ key_stack = <<>>
    /\ accum_time # EmptyDict

\* C8: update renders (writes the line clear and the bar, and sets
\* last_rendered_progress to completed_progress) exactly when all_completed
\* is true or, progress added, completed_progress is at least 0.5 away from
\* last_rendered_progress; otherwise it writes nothing and leaves
\* last_rendered_progress as it was.
C8_RenderThrottle ==
    [][\A progress \in ProgressArgs, all_completed \in BOOLEAN :
        BarUpdate(progress, all_completed) =>
            IF \/ all_completed
               \/ Abs((completed_progress + progress) - last_rendered_progress) >= Half
            THEN /\ written' = <<"clear_line", Bar(all_completed)>>
                 /\ last_rendered_progress' = completed_progress + progress
                 /\ last_rendered_progress' = completed_progress'
            ELSE /\ written' = <<>>
                 /\ last_rendered_progress' = last_rendered_progress]_vars

\* two updates after enter, the first throttled, the second rendering as the
\* sum reaches 0.5
C8_Witness ==
    /\ pb_phase = "entered"
    /\ num_update_called = 2
    /\ completed_progress = One + Half
    /\ last_rendered_progress = completed_progress
    /\ written = <<"clear_line", Bar(FALSE)>>

\* C9: after an exit that follows at least one rendering update of the
\* user's, exit has written one all_completed render, the final message and a
\* newline, and not the lone line clear.
C9_RealRenderGetsSummary ==
    (pb_phase = "exited" /\ real_render)
    => written = <<"clear_line", Bar(TRUE), "final_msg", "newline">>

\* C10: an exit that follows no rendering update of the user's writes the
\* line clear alone and leaves completed_progress, last_rendered_progress and
\* the update-call counter as they were.
C10_NoRenderOnlyClears ==
    [][(BarExit /\ ~real_render) =>
        /\ written' = <<"clear_line">>
        /\ UNCHANGED <<completed_progress, last_rendered_progress, num_update_called>>]_vars

C10_Witness ==
    /\ pb_phase = "exited"
    /\ ~real_render
    /\ num_update_called >= 2
    /\ completed_progress > One
    /\ written = <<"clear_line">>

\* C13: push(key) puts key on top of the key stack and leaves the four
\* mappings and pending_reset as they were, so the key gets no timestamp
\* before its enter.
C13_PushFrame ==
    [][\A key \in Keys : Push(key) =>
        /\ key_stack' = Append(key_stack, key)
        /\ UNCHANGED <<accum_time, first_start_time, start_time, end_time, pending_reset>>]_vars

C13_Witness ==
    /\ last_call = "push"
    /\ key_stack = <<"a", "b">>
    /\ Has(start_time, "a")
    /\ ~Has(start_time, "b")
    /\ ~Has(first_start_time, "b")

\* C14: enter leaves the key stack as it is, gives the top key a
\* first_start_time only if it has none, and sets its start_time to the clock;
\* first_start_time[k] changes only when a reset is performed, and
\* first_start_time[k] <= start_time[k] for every key entered.
C14_EnterTimes ==
    /\ [][(Enter /\ key_stack # <<>>) =>
            LET key == key_stack[Len(key_stack)]
            IN  /\ key_stack' = key_stack
                /\ Get(start_time', key) = now'
                /\ IF Has(first_start_time, key)
                   THEN first_start_time' = first_start_time
                   ELSE /\ Has(first_start_time', key)
                        /\ Get(first_start_time', key) >= now
                        /\ Get(first_start_time', key) <= now']_vars
    /\ [][~ResetTakesEffect =>
            \A k \in DictKeys(first_start_time) :
                /\ Has(first_start_time', k)
                /\ Get(first_start_time', k) = Get(first_start_time, k)]_vars
    /\ [](\A k \in DictKeys(first_start_time) :
            Has(start_time, k) /\ Get(first_start_time, k) <= Get(start_time, k))

\* a key entered a second time, later than its first enter
C14_Witness ==
    /\ last_call = "enter"
    /\ raised = "none"
    /\ pushes["a"] = 2
    /\ exits = 1
    /\ Has(first_start_time, "a")
    /\ Get(first_start_time, "a") = 0
    /\ Get(start_time, "a") = 2

\* C15: the keys __str__ lists are the keys exited since creation or the last
\* performed reset, each once, in the order of their first exit.
C15_RenderOrder ==
    /\ RenderKeys(Current) = first_exits
    /\ NoDuplicateKeys(accum_time)

\* nested scopes, b inside a: b is listed before a
C15_Witness ==
    /\ key_stack = <<>>
    /\ max_depth = 2
    /\ disciplined
    /\ pushes = [k \in Keys |-> 1]
    /\ Has(first_start_time, "a")
    /\ Get(first_start_time, "a") < Get(first_start_time, "b")
    /\ RenderKeys(Current) = <<"b", "a">>

\* C18: pending_reset is true only while the key stack is non-empty.
C18_PendingOnlyWithOpenKeys == pending_reset => key_stack # <<>>

\* a reset still pending after an exit that left a key on the stack
C18_Witness ==
    /\ pending_reset
    /\ last_call = "exit"
    /\ raised = "none"
    /\ Len(key_stack) = 1
    /\ accum_time # EmptyDict

\* C16: every update call, throttled or not, adds its progress to
\* completed_progress and, unless it is the call of enter, one to the
\* update-call counter; after enter the counter is 0 and completed_progress is
\* 1, and after n updates of the user's the counter is n and
\* completed_progress is 1 plus the sum of their progress arguments.
C16_CountersAlwaysUpdated ==
    /\ [][\A progress \in ProgressArgs, all_completed \in BOOLEAN :
            BarUpdate(progress, all_completed) =>
                /\ num_update_called' = num_update_called + 1
                /\ completed_progress' = completed_progress + progress]_vars
    /\ [][BarEnter => (num_update_called' = 0 /\ completed_progress' = One)]_vars
    /\ [][(BarExit /\ Rendered(written')) =>
            /\ num_update_called' = num_update_called + 1
            /\ completed_progress' = completed_progress]_vars
    /\ [](pb_phase = "entered" =>
            /\ num_update_called = n_updates
            /\ completed_progress = One + sum_progress)

\* three updates, the last one throttled and still counted
C16_Witness ==
    /\ pb_phase = "entered"
    /\ n_updates = 3
    /\ num_update_called = 3
    /\ written = <<>>
    /\ completed_progress = last_rendered_progress + 1
    /\ real_render

\* C17: at a render with completed_progress > 0, num_bars is between 1 and
\* bars_on_row; it is bars_on_row exactly when completed_progress is a
\* multiple of bars_on_row, and max(completed_progress mod bars_on_row, 1)
\* otherwise; so the filled bars are 1..40 and the unfilled length is not
\* negative.
C17_NumBarsRange ==
    (Rendered(written) /\ completed_progress > 0) =>
        /\ num_bars >= One
        /\ num_bars <= Row
        /\ (num_bars = Row) <=> (completed_progress % Row = 0)
        /\ (completed_progress % Row # 0) =>
              num_bars = (IF completed_progress % Row > One
                          THEN completed_progress % Row ELSE One)
        /\ NumFullBars(num_bars) \in 1..BarsOnRow
        /\ BarsOnRow - NumFullBars(num_bars) >= 0

\* a render at exactly 40.0: a full row
C17_Witness ==
    /\ Rendered(written)
    /\ completed_progress = Row
    /\ num_bars = Row
    /\ NumFullBars(num_bars) = BarsOnRow

\* C19: after every call, completed_progress is less than 0.5 away from
\* last_rendered_progress, which is the completed_progress of the last render.
C19_LastRenderedTracks ==
    /\ Abs(completed_progress - last_rendered_progress) < Half
    /\ pb_phase # "new" => last_rendered_progress = completed_at_render

\* a throttled update after a rendering one
C19_Witness ==
    /\ pb_phase = "entered"
    /\ real_render
    /\ written = <<>>
    /\ Abs(completed_progress - last_rendered_progress) = Half - 1
    /\ last_rendered_progress > One

\* C11: a TimeContext emits its in-progress message on enter and then one
\* completion message on exit, whether the with block ended normally or
\* raised; exit sets duration to the time since enter, and the block's error
\* is still raised to the caller.
C11_TimerMessages ==
    /\ [][\A typ \in {"none", "error"} : TimerExit(typ) =>
            /\ tc_duration' = now - tc_start
            /\ tc_out' = Append(tc_out, ExitMsg(task_name, tc_logger, tc_duration'))
            /\ tc_propagated' = typ]_vars
    /\ [](tc_phase = "running" => tc_out = <<EnterMsg(task_name, tc_logger)>>)
    /\ [](tc_phase = "exited" =>
            /\ tc_out = <<EnterMsg(task_name, tc_logger),
                          ExitMsg(task_name, tc_logger, tc_duration)>>
            /\ tc_propagated = tc_region)

\* a block that raised after two ticks, timed with a logger
C11_Witness ==
    /\ tc_phase = "exited"
    /\ tc_region = "error"
    /\ tc_propagated = "error"
    /\ tc_logger
    /\ tc_duration = 2
    /\ Len(tc_out) = 2

\* C12: when the wrapped call returns, the wrapper has logged exactly one
\* line, after the call, and returns the call's result; when it raises, the
\* error reaches the caller and no line is logged.
C12_ProfilingOutcome ==
    /\ [][\A r \in Results, grow \in 0..1 : FuncReturns(r, grow) =>
            /\ prof_log = <<>>
            /\ Len(prof_log') = 1
            /\ prof_result' = r
            /\ prof_error' = "none"]_vars
    /\ [][\A grow \in 0..1 : FuncRaises(grow) =>
            /\ prof_log' = <<>>
            /\ prof_error' = "error"
            /\ prof_result' = "none"]_vars
    /\ [](prof_pc = "in_func" => prof_log = <<>>)

\* a call that raised after a tick and after the memory grew
C12_Witness ==
    /\ prof_pc = "idle"
    /\ prof_error = "error"
    /\ prof_log = <<>>
    /\ now > prof_start_t
    /\ maxrss > prof_start_mem

====
